---- MODULE Spec2Model ----
(***************************************************************************)
(* A model of the connect6 board core (src/src/board.rs): the Board of     *)
(* Pieces with its bounds-checked get/set, the Line sampler and the four   *)
(* line accessors, and the LineIterator with its State machine.            *)
(*                                                                         *)
(* BOARD_SIZE is a compile-time constant of the program.  The model keeps  *)
(* the dimension in the variable N, fixed by Init, so that the same code   *)
(* can be checked for the program's own value and for small substituted    *)
(* values.  A panic ends the thread: once panicked, nothing more happens.  *)
(***************************************************************************)
EXTENDS Integers, Sequences, FiniteSets, TLC

\* ------------------------------------------------------------------ bounds

\* Largest substituted board dimension (besides the program's BOARD_SIZE).
MaxDim == 2

\* Largest number of Board::set calls in one behaviour.
MaxSets == 3

\* Largest number of Board::set calls in a behaviour that also samples Lines.
MaxLineSets == 1

\* ------------------------------------------------------- program constants

BOARD_SIZE == 19

CENTER == BOARD_SIZE \div 2

\* usize values are kept modulo this range.  The program's usize is wider;
\* the only use of the wrap is that a negative i32 cast to usize is far
\* outside every board.
USIZE_RANGE == 2^30

AsUsize(x) == x % USIZE_RANGE

Piece == {"Empty", "Black", "White"}

VARIABLES
    N,          \* the value substituted for BOARD_SIZE
    board,      \* Board.rows: row index -> (Row.cells: col index -> Piece)
    nsets,      \* number of Board::set calls made so far
    written,    \* history: cell -> the piece of the most recent set, or "Unset"
    line,       \* the Line most recently returned by an accessor, if any
    lineFrom,   \* history: the call and the board that `line` was sampled from
    iter,       \* the LineIterator, once created: its state
    result,     \* what the last LineIterator::next returned
    visits,     \* history: states visited per kind, as test_state_transition counts
    sampled,    \* history: per yielded Line, the coordinates it was read from
    kinds,      \* history: per yielded Line, the kind of State that yielded it
    lastOp,     \* the last call made and its outcome
    panicked    \* the thread has panicked

vars == <<N, board, nsets, written, line, lineFrom, iter, result, visits,
          sampled, kinds, lastOp, panicked>>

\* MAX of State::next
MAX == N - 1

\* --------------------------------------------------------- outcomes of calls

Ok(v) == [ok |-> TRUE, val |-> v]

Panic == [ok |-> FALSE]

\* ------------------------------------------------------------------- Row

\* Row::empty filled with the wrong Piece variant.
RowEmptyBlack == [c \in 0..(N - 1) |-> "Black"]

RowEmpty == [c \in 0..(N - 1) |-> "Empty"]

\* self.cells[col]: indexing outside the array panics
RowGet(rw, col) == IF col \in DOMAIN rw THEN Ok(rw[col]) ELSE Panic

\* Row::set with the index taken modulo the row length instead of checked.
RowSetWrapping(rw, col, val) ==
    Ok([rw EXCEPT ![col % N] = val])

\* self.cells[col] = val
RowSet(rw, col, val) ==
    IF col \in DOMAIN rw THEN Ok([rw EXCEPT ![col] = val]) ELSE Panic

\* ----------------------------------------------------------------- Board

BoardEmpty == [r \in 0..(N - 1) |-> RowEmpty]

BoardGet(b, row, col) ==
    IF row >= N \/ col >= N
    THEN Panic
    ELSE IF row \in DOMAIN b THEN RowGet(b[row], col) ELSE Panic

\* Board::set with row and col exchanged: self.rows[col].set(row, val)
BoardSetTransposed(b, row, col, val) ==
    IF col \notin DOMAIN b
    THEN Panic
    ELSE LET rw == RowSet(b[col], row, val)
         IN  IF rw.ok THEN Ok([b EXCEPT ![col] = rw.val]) ELSE Panic

\* self.rows[row].set(col, val): no check of its own, the two array
\* indexings panic when out of range
BoardSet(b, row, col, val) ==
    IF row \notin DOMAIN b
    THEN Panic
    ELSE LET rw == RowSet(b[row], col, val)
         IN  IF rw.ok THEN Ok([b EXCEPT ![row] = rw.val]) ELSE Panic

\* ------------------------------------------------------------------ Line

\* Line::empty without its assertion size >= 1.
LineEmptyNoLowerBound(size) ==
    IF ~(size <= N) THEN Panic
    ELSE Ok([size |-> size, cells |-> [i \in 0..(N - 1) |-> "Empty"]])

LineEmpty(size) ==
    IF ~(size <= N) THEN Panic
    ELSE IF ~(size >= 1) THEN Panic
    ELSE Ok([size |-> size, cells |-> [i \in 0..(N - 1) |-> "Empty"]])

LineSet(l, index, val) ==
    IF ~(index < l.size) THEN Panic
    ELSE IF index \notin DOMAIN l.cells THEN Panic
    ELSE Ok([l EXCEPT !.cells[index] = val])

\* The characters of a &str are one-character strings; a &str is the
\* sequence of its characters.  "?" stands for every character other than
\* '-', 'O' and 'X'.
Alphabet == {"-", "O", "X", "?"}

\* The match of Line::of: the piece a character stands for.
OfChar(c) ==
    CASE c = "-" -> Ok("Empty")
      [] c = "O" -> Ok("White")
      [] c = "X" -> Ok("Black")
      [] OTHER   -> Panic

\* The loop of Line::of from character i on.
RECURSIVE LineOfLoop(_, _, _)
LineOfLoop(s, i, l) ==
    IF i >= Len(s) THEN Ok(l)
    ELSE LET p == OfChar(s[i + 1])
         IN  IF ~p.ok THEN Panic
             ELSE LET nl == LineSet(l, i, p.val)
                  IN  IF ~nl.ok THEN Panic
                      ELSE LineOfLoop(s, i + 1, nl.val)

\* Line::of(s)
LineOf(s) ==
    LET l == LineEmpty(Len(s))
    IN  IF ~l.ok THEN Panic ELSE LineOfLoop(s, 0, l.val)

LineGet(l, index) == l.cells[index]

LineSize(l) == l.size

\* The match of Display::fmt: the character written for a piece.
FmtPiece(p) ==
    CASE p = "Empty" -> "-"
      [] p = "White" -> "O"
      [] p = "Black" -> "X"

\* A rendering that writes the whole cells array instead of the first
\* size() cells.
LineToStringWholeArray(l) ==
    <<"[">> \o [i \in 1..N |-> FmtPiece(LineGet(l, i - 1))] \o <<"]">>

\* line.to_string(), by Display::fmt
LineToString(l) ==
    <<"[">> \o [i \in 1..LineSize(l) |-> FmtPiece(LineGet(l, i - 1))]
          \o <<"]">>

\* SampleCoord with the two strides exchanged.
SampleCoordSwapped(row, col, rstride, cstride, i) ==
    <<AsUsize(row + i * cstride), AsUsize(col + i * rstride)>>

\* SampleCoord that counts its steps from one.
SampleCoordFromOne(row, col, rstride, cstride, i) ==
    <<AsUsize(row + (i + 1) * rstride), AsUsize(col + (i + 1) * cstride)>>

\* The coordinate Line::on reads at step i
SampleCoord(row, col, rstride, cstride, i) ==
    <<AsUsize(row + i * rstride), AsUsize(col + i * cstride)>>

\* Line::on: the Line of `size` cells read at SampleCoord(.., i) for
\* i in 0..size, written in that order.  The loop panics at the first
\* board.get that panics; otherwise line.set(i, val) stores each value
\* (its assert index < size holds for every i of the loop).  `reads` is
\* history: the coordinates read.
LineOn(b, row, col, rstride, cstride, size) ==
    LET l == LineEmpty(size)
    IN  IF ~l.ok THEN Panic
        ELSE LET reads == [i \in 1..size |->
                             SampleCoord(row, col, rstride, cstride, i - 1)]
                 vals  == [i \in 1..size |->
                             BoardGet(b, reads[i][1], reads[i][2])]
             IN  IF \E i \in 1..size : ~vals[i].ok THEN Panic
                 ELSE [ok |-> TRUE,
                       val |-> [size |-> size,
                                cells |-> [j \in 0..(N - 1) |->
                                             IF j < size THEN vals[j + 1].val
                                             ELSE l.val.cells[j]]],
                       reads |-> reads]

\* get_row that starts every row at (0, 0).
GetRowFirst(b, row) == LineOn(b, 0, 0, 0, 1, N)

GetRow(b, row) == LineOn(b, row, 0, 0, 1, N)

GetCol(b, col) == LineOn(b, 0, col, 1, 0, N)

\* get_down_diagonal with the length computed from the row alone.
GetDownDiagonalLenRow(b, row, col) ==
    IF ~(row = 0 \/ col = 0) THEN Panic
    ELSE IF ~(row < N) THEN Panic
    ELSE IF ~(col < N) THEN Panic
    ELSE LET len == N - row
         IN  LineOn(b, row, col, 1, 1, len)

\* The asserts make row + col <= N - 1, so the usize subtraction cannot
\* underflow.
GetDownDiagonal(b, row, col) ==
    IF ~(row = 0 \/ col = 0) THEN Panic
    ELSE IF ~(row < N) THEN Panic
    ELSE IF ~(col < N) THEN Panic
    ELSE LET len == N - row - col
         IN  LineOn(b, row, col, 1, 1, len)

\* get_up_diagonal with the length one short: row - col.
GetUpDiagonalShort(b, row, col) ==
    IF ~(row = N - 1 \/ col = 0) THEN Panic
    ELSE IF ~(row < N) THEN Panic
    ELSE IF ~(col < N) THEN Panic
    ELSE LET len == row - col
         IN  LineOn(b, row, col, -1, 1, len)

\* get_up_diagonal without its assertion that the start is on the left or
\* the bottom edge.
GetUpDiagonalNoEdgeAssert(b, row, col) ==
    IF ~(row < N) THEN Panic
    ELSE IF ~(col < N) THEN Panic
    ELSE LET len == row - col + 1
         IN  LineOn(b, row, col, -1, 1, len)

\* The asserts make col <= row, so the usize subtraction cannot underflow.
GetUpDiagonal(b, row, col) ==
    IF ~(row = N - 1 \/ col = 0) THEN Panic
    ELSE IF ~(row < N) THEN Panic
    ELSE IF ~(col < N) THEN Panic
    ELSE LET len == row - col + 1
         IN  LineOn(b, row, col, -1, 1, len)

\* ----------------------------------------------------------------- State

Row(i) == [tag |-> "Row", i |-> i]

Col(i) == [tag |-> "Col", i |-> i]

UpDiag(r, c) == [tag |-> "UpDiag", r |-> r, c |-> c]

DownDiag(r, c) == [tag |-> "DownDiag", r |-> r, c |-> c]

Finished == [tag |-> "Finished"]

\* the catch-all arm: panic!("Illegal state ...")
IllegalState == [tag |-> "Illegal"]

\* StateNext with the two corner arms of UpDiag confused: the walk leaves the
\* up-diagonals at (MAX, 0) already.
StateNextCornerSkip(s) ==
    IF s.tag = "Row" THEN
        IF s.i = MAX THEN Col(0) ELSE Row(s.i + 1)
    ELSE IF s.tag = "Col" THEN
        IF s.i = MAX THEN UpDiag(0, 0) ELSE Col(s.i + 1)
    ELSE IF s.tag = "UpDiag" THEN
        IF s.r = MAX /\ s.c = 0 THEN DownDiag(0, MAX)
        ELSE IF s.r = MAX /\ s.c = MAX THEN UpDiag(MAX, 1)
        ELSE IF s.c = 0 THEN UpDiag(s.r + 1, 0)
        ELSE IF s.r = MAX THEN UpDiag(MAX, s.c + 1)
        ELSE IllegalState
    ELSE IF s.tag = "DownDiag" THEN
        IF s.r = 0 /\ s.c = 0 THEN DownDiag(1, 0)
        ELSE IF s.r = MAX /\ s.c = 0 THEN Finished
        ELSE IF s.r = 0 THEN DownDiag(0, s.c - 1)
        ELSE IF s.c = 0 THEN DownDiag(s.r + 1, 0)
        ELSE IllegalState
    ELSE Finished

\* StateNext with the arm DownDiag(r, 0) written before DownDiag(MAX, 0): the
\* walk steps past the last down-diagonal instead of finishing.
StateNextNoFinish(s) ==
    IF s.tag = "Row" THEN
        IF s.i = MAX THEN Col(0) ELSE Row(s.i + 1)
    ELSE IF s.tag = "Col" THEN
        IF s.i = MAX THEN UpDiag(0, 0) ELSE Col(s.i + 1)
    ELSE IF s.tag = "UpDiag" THEN
        IF s.r = MAX /\ s.c = 0 THEN UpDiag(MAX, 1)
        ELSE IF s.r = MAX /\ s.c = MAX THEN DownDiag(0, MAX)
        ELSE IF s.c = 0 THEN UpDiag(s.r + 1, 0)
        ELSE IF s.r = MAX THEN UpDiag(MAX, s.c + 1)
        ELSE IllegalState
    ELSE IF s.tag = "DownDiag" THEN
        IF s.r = 0 /\ s.c = 0 THEN DownDiag(1, 0)
        ELSE IF s.c = 0 THEN DownDiag(s.r + 1, 0)
        ELSE IF s.r = MAX /\ s.c = 0 THEN Finished
        ELSE IF s.r = 0 THEN DownDiag(0, s.c - 1)
        ELSE IllegalState
    ELSE Finished

\* StateNext whose Finished arm starts the walk again at Row(0).
StateNextRestart(s) ==
    IF s.tag = "Row" THEN
        IF s.i = MAX THEN Col(0) ELSE Row(s.i + 1)
    ELSE IF s.tag = "Col" THEN
        IF s.i = MAX THEN UpDiag(0, 0) ELSE Col(s.i + 1)
    ELSE IF s.tag = "UpDiag" THEN
        IF s.r = MAX /\ s.c = 0 THEN UpDiag(MAX, 1)
        ELSE IF s.r = MAX /\ s.c = MAX THEN DownDiag(0, MAX)
        ELSE IF s.c = 0 THEN UpDiag(s.r + 1, 0)
        ELSE IF s.r = MAX THEN UpDiag(MAX, s.c + 1)
        ELSE IllegalState
    ELSE IF s.tag = "DownDiag" THEN
        IF s.r = 0 /\ s.c = 0 THEN DownDiag(1, 0)
        ELSE IF s.r = MAX /\ s.c = 0 THEN Finished
        ELSE IF s.r = 0 THEN DownDiag(0, s.c - 1)
        ELSE IF s.c = 0 THEN DownDiag(s.r + 1, 0)
        ELSE IllegalState
    ELSE Row(0)

\* StateNext that leaves the last up diagonal for DownDiag(0, 0).
StateNextSkipTopEdge(s) ==
    IF s.tag = "Row" THEN
        IF s.i = MAX THEN Col(0) ELSE Row(s.i + 1)
    ELSE IF s.tag = "Col" THEN
        IF s.i = MAX THEN UpDiag(0, 0) ELSE Col(s.i + 1)
    ELSE IF s.tag = "UpDiag" THEN
        IF s.r = MAX /\ s.c = 0 THEN UpDiag(MAX, 1)
        ELSE IF s.r = MAX /\ s.c = MAX THEN DownDiag(0, 0)
        ELSE IF s.c = 0 THEN UpDiag(s.r + 1, 0)
        ELSE IF s.r = MAX THEN UpDiag(MAX, s.c + 1)
        ELSE IllegalState
    ELSE IF s.tag = "DownDiag" THEN
        IF s.r = 0 /\ s.c = 0 THEN DownDiag(1, 0)
        ELSE IF s.r = MAX /\ s.c = 0 THEN Finished
        ELSE IF s.r = 0 THEN DownDiag(0, s.c - 1)
        ELSE IF s.c = 0 THEN DownDiag(s.r + 1, 0)
        ELSE IllegalState
    ELSE Finished

\* StateNext that steps off the bottom edge while it advances the column.
StateNextOffEdge(s) ==
    IF s.tag = "Row" THEN
        IF s.i = MAX THEN Col(0) ELSE Row(s.i + 1)
    ELSE IF s.tag = "Col" THEN
        IF s.i = MAX THEN UpDiag(0, 0) ELSE Col(s.i + 1)
    ELSE IF s.tag = "UpDiag" THEN
        IF s.r = MAX /\ s.c = 0 THEN UpDiag(MAX, 1)
        ELSE IF s.r = MAX /\ s.c = MAX THEN DownDiag(0, MAX)
        ELSE IF s.c = 0 THEN UpDiag(s.r + 1, 0)
        ELSE IF s.r = MAX THEN UpDiag(MAX - 1, s.c + 1)
        ELSE IllegalState
    ELSE IF s.tag = "DownDiag" THEN
        IF s.r = 0 /\ s.c = 0 THEN DownDiag(1, 0)
        ELSE IF s.r = MAX /\ s.c = 0 THEN Finished
        ELSE IF s.r = 0 THEN DownDiag(0, s.c - 1)
        ELSE IF s.c = 0 THEN DownDiag(s.r + 1, 0)
        ELSE IllegalState
    ELSE Finished

\* The arms of the match, tried in the order they are written.
StateNext(s) ==
    IF s.tag = "Row" THEN
        IF s.i = MAX THEN Col(0) ELSE Row(s.i + 1)
    ELSE IF s.tag = "Col" THEN
        IF s.i = MAX THEN UpDiag(0, 0) ELSE Col(s.i + 1)
    ELSE IF s.tag = "UpDiag" THEN
        IF s.r = MAX /\ s.c = 0 THEN UpDiag(MAX, 1)
        ELSE IF s.r = MAX /\ s.c = MAX THEN DownDiag(0, MAX)
        ELSE IF s.c = 0 THEN UpDiag(s.r + 1, 0)
        ELSE IF s.r = MAX THEN UpDiag(MAX, s.c + 1)
        ELSE IllegalState
    ELSE IF s.tag = "DownDiag" THEN
        IF s.r = 0 /\ s.c = 0 THEN DownDiag(1, 0)
        ELSE IF s.r = MAX /\ s.c = 0 THEN Finished
        ELSE IF s.r = 0 THEN DownDiag(0, s.c - 1)
        ELSE IF s.c = 0 THEN DownDiag(s.r + 1, 0)
        ELSE IllegalState
    ELSE Finished

\* ---------------------------------------------------------- LineIterator

None == [some |-> FALSE]

Some(l) == [some |-> TRUE, line |-> l]

NoIter == [alive |-> FALSE]

LineIteratorOn == [alive |-> TRUE, state |-> Row(0)]

\* NextResult with the Col arm calling get_row: the kinds and the number of
\* Lines stay right, the columns are never sampled.
NextResultColAsRow(b, st) ==
    IF st.tag = "Finished"
    THEN [ok |-> TRUE, val |-> None, reads |-> <<>>]
    ELSE LET l == CASE st.tag = "Row"      -> GetRow(b, st.i)
                    [] st.tag = "Col"      -> GetRow(b, st.i)
                    [] st.tag = "UpDiag"   -> GetUpDiagonal(b, st.r, st.c)
                    [] st.tag = "DownDiag" -> GetDownDiagonal(b, st.r, st.c)
         IN  IF l.ok
             THEN [ok |-> TRUE, val |-> Some(l.val), reads |-> l.reads]
             ELSE Panic

\* `let result = match self.state { ... }`
NextResult(b, st) ==
    IF st.tag = "Finished"
    THEN [ok |-> TRUE, val |-> None, reads |-> <<>>]
    ELSE LET l == CASE st.tag = "Row"      -> GetRow(b, st.i)
                    [] st.tag = "Col"      -> GetCol(b, st.i)
                    [] st.tag = "UpDiag"   -> GetUpDiagonal(b, st.r, st.c)
                    [] st.tag = "DownDiag" -> GetDownDiagonal(b, st.r, st.c)
         IN  IF l.ok
             THEN [ok |-> TRUE, val |-> Some(l.val), reads |-> l.reads]
             ELSE Panic

\* ------------------------------------------------------------ call inputs

\* Cells passed to get and set.  For the small dimensions: every valid cell
\* and every cell with a coordinate in N..2N-1.  For BOARD_SIZE itself: the
\* three placements of test_set, the rest of the centre neighbourhood that it
\* reads, and cells with the first invalid coordinate and the last below 2N.
Placements ==
    {<<CENTER, CENTER>>, <<CENTER + 1, CENTER + 1>>, <<CENTER, CENTER - 1>>}

Outside == {<<N, CENTER>>, <<CENTER, N>>, <<2 * N - 1, 0>>, <<0, 2 * N - 1>>,
            <<N, N>>}

SetCells ==
    IF N > MaxDim
    THEN Placements \cup Outside
    ELSE (0..(2 * N - 1)) \X (0..(2 * N - 1))

GetCells ==
    IF N > MaxDim
    THEN ((CENTER - 1)..(CENTER + 1)) \X ((CENTER - 1)..(CENTER + 1))
         \cup {<<0, 0>>, <<N - 1, N - 1>>} \cup Outside
    ELSE (0..(2 * N - 1)) \X (0..(2 * N - 1))

\* Start coordinates passed to the line accessors.
StartCoords ==
    IF N > MaxDim THEN {0, 1, CENTER, N - 1, N} ELSE 0..N

Cells == (0..(N - 1)) \X (0..(N - 1))

NoLine == [held |-> FALSE]

NoCall == [op |-> "none", row |-> 0, col |-> 0, val |-> "none",
           ok |-> TRUE, ret |-> "none"]

Call(op, row, col, val, ok, ret) ==
    [op |-> op, row |-> row, col |-> col, val |-> val,
     ok |-> ok, ret |-> IF ok THEN ret ELSE "panic"]

\* The strings of test_line_to_string
TestTexts ==
    { <<"-", "-", "-">>,
      <<"-", "-", "-", "X", "X", "-", "-", "-", "-", "-">>,
      <<"-", "-", "-", "X", "X", "O", "-", "-", "O", "O", "O", "O", "-", "-">> }

\* A string of n characters that uses all three piece characters.
Striped(n) ==
    [i \in 1..n |-> IF i % 3 = 0 THEN "X" ELSE IF i % 3 = 1 THEN "O" ELSE "-"]

\* The strings handed to Line::of: every string of at most N + 1 characters
\* on a small board; on the program's board the test strings, one with a
\* character that is no piece, and strings of 0, N and N + 1 characters.
Texts ==
    IF N > MaxDim
    THEN TestTexts \cup {<<>>, <<"-", "?", "X">>, Striped(N), Striped(N + 1)}
    ELSE UNION {[1..n -> Alphabet] : n \in 0..(N + 1)}

\* The sizes handed to Line::empty
Sizes == StartCoords \cup {N + 1}

ZeroVisits == [rows |-> 0, cols |-> 0, d1 |-> 0, d2 |-> 0]

\* ---------------------------------------------------------------- actions

\* The Line the accessor call `from` returns on board b.
Resample(from, b) ==
    CASE from.op = "get_row"           -> GetRow(b, from.row)
      [] from.op = "get_col"           -> GetCol(b, from.col)
      [] from.op = "get_down_diagonal" -> GetDownDiagonal(b, from.row, from.col)
      [] from.op = "get_up_diagonal"   -> GetUpDiagonal(b, from.row, from.col)

\* A set under which a Line is a view of the board instead of a copy of its
\* cells: the held Line follows the write.
SetCallAliased(row, col, val) ==
    /\ ~panicked
    /\ ~iter.alive
    /\ nsets < MaxSets
    /\ LET out == BoardSet(board, row, col, val)
       IN  /\ board' = IF out.ok THEN out.val ELSE board
           /\ written' =
                IF out.ok
                THEN [x \in DOMAIN written \cup {<<row, col>>} |->
                        IF x = <<row, col>> THEN val ELSE written[x]]
                ELSE written
           /\ line' = IF out.ok /\ line.held
                      THEN [held |-> TRUE, val |-> Resample(lineFrom, out.val).val]
                      ELSE line
           /\ lastOp' = Call("set", row, col, val, out.ok, "unit")
           /\ panicked' = ~out.ok
    /\ nsets' = nsets + 1
    /\ UNCHANGED <<N, lineFrom, iter, result, visits, sampled, kinds>>

\* b.set(row, col, val) by the board's owner.  A LineIterator borrows the
\* board for its lifetime, so no set happens while one is alive.
SetCall(row, col, val) ==
    /\ ~panicked
    /\ ~iter.alive
    /\ nsets < MaxSets
    /\ LET out == BoardSet(board, row, col, val)
       IN  /\ board' = IF out.ok THEN out.val ELSE board
           /\ written' =
                IF out.ok
                THEN [x \in DOMAIN written \cup {<<row, col>>} |->
                        IF x = <<row, col>> THEN val ELSE written[x]]
                ELSE written
           /\ lastOp' = Call("set", row, col, val, out.ok, "unit")
           /\ panicked' = ~out.ok
    /\ nsets' = nsets + 1
    /\ UNCHANGED <<N, line, lineFrom, iter, result, visits, sampled, kinds>>

\* b.get(row, col)
GetCall(row, col) ==
    /\ ~panicked
    /\ ~iter.alive
    /\ LET out == BoardGet(board, row, col)
       IN  /\ lastOp' = Call("get", row, col, "none", out.ok,
                             IF out.ok THEN out.val ELSE "panic")
           /\ panicked' = ~out.ok
    /\ UNCHANGED <<N, board, nsets, written, line, lineFrom, iter, result,
                   visits, sampled, kinds>>

\* A call of one of the four line accessors, returning `out`.
LineCall(op, row, col, out) ==
    /\ ~panicked
    /\ ~iter.alive
    /\ line' = IF out.ok THEN [held |-> TRUE, val |-> out.val] ELSE line
    /\ lineFrom' = IF out.ok
                   THEN [op |-> op, row |-> row, col |-> col]
                   ELSE lineFrom
    /\ lastOp' = Call(op, row, col, "none", out.ok, "line")
    /\ panicked' = ~out.ok
    /\ UNCHANGED <<N, board, nsets, written, iter, result, visits, sampled,
                   kinds>>

GetRowCall(row) == LineCall("get_row", row, 0, GetRow(board, row))

GetColCall(col) == LineCall("get_col", 0, col, GetCol(board, col))

GetDownDiagonalCall(row, col) ==
    LineCall("get_down_diagonal", row, col, GetDownDiagonal(board, row, col))

GetUpDiagonalCall(row, col) ==
    LineCall("get_up_diagonal", row, col, GetUpDiagonal(board, row, col))

\* Line::of(s).  The caller makes its direct calls before it creates the
\* iterator.
LineOfCall(s) ==
    /\ ~panicked
    /\ ~iter.alive
    /\ LET out == LineOf(s)
       IN  /\ line' = IF out.ok THEN [held |-> TRUE, val |-> out.val] ELSE line
           /\ lineFrom' = IF out.ok
                          THEN [op |-> "of", row |-> 0, col |-> 0, text |-> s]
                          ELSE lineFrom
           /\ lastOp' = Call("of", 0, 0, s, out.ok, "line")
           /\ panicked' = ~out.ok
    /\ UNCHANGED <<N, board, nsets, written, iter, result, visits, sampled,
                   kinds>>

\* Line::empty(size)
LineEmptyCall(size) ==
    /\ ~panicked
    /\ ~iter.alive
    /\ LET out == LineEmpty(size)
       IN  /\ line' = IF out.ok THEN [held |-> TRUE, val |-> out.val] ELSE line
           /\ lineFrom' = IF out.ok
                          THEN [op |-> "empty", row |-> size, col |-> 0]
                          ELSE lineFrom
           /\ lastOp' = Call("empty", size, 0, "none", out.ok, "line")
           /\ panicked' = ~out.ok
    /\ UNCHANGED <<N, board, nsets, written, iter, result, visits, sampled,
                   kinds>>

\* line.to_string() on the Line held
LineToStringCall ==
    /\ ~panicked
    /\ ~iter.alive
    /\ line.held
    /\ lastOp' = Call("to_string", 0, 0, "none", TRUE, LineToString(line.val))
    /\ UNCHANGED <<N, board, nsets, written, line, lineFrom, iter, result,
                   visits, sampled, kinds, panicked>>

\* LineIterator::on(&board)
IterOn ==
    /\ ~panicked
    /\ ~iter.alive
    /\ iter' = LineIteratorOn
    /\ result' = None
    /\ visits' = ZeroVisits
    /\ sampled' = <<>>
    /\ kinds' = <<>>
    /\ lastOp' = Call("on", 0, 0, "none", TRUE, "iter")
    /\ UNCHANGED <<N, board, nsets, written, line, lineFrom, panicked>>

\* The kind counters of test_state_transition, for the state being left.
Count(v, st) ==
    CASE st.tag = "Row"      -> [v EXCEPT !.rows = @ + 1]
      [] st.tag = "Col"      -> [v EXCEPT !.cols = @ + 1]
      [] st.tag = "UpDiag"   -> [v EXCEPT !.d1 = @ + 1]
      [] st.tag = "DownDiag" -> [v EXCEPT !.d2 = @ + 1]
      [] OTHER               -> v

\* A next that takes the pieces it yields off the board.
IterNextConsuming ==
    /\ ~panicked
    /\ iter.alive
    /\ LET st  == iter.state
           res == NextResult(board, st)
           ns  == StateNext(st)
           ok  == res.ok /\ ns # IllegalState
       IN  /\ iter' = IF ok THEN [iter EXCEPT !.state = ns] ELSE iter
           /\ result' = IF ok THEN res.val ELSE result
           /\ visits' = IF ok THEN Count(visits, st) ELSE visits
           /\ sampled' = IF ok /\ res.val.some
                         THEN Append(sampled, res.reads)
                         ELSE sampled
           /\ kinds' = IF ok /\ res.val.some
                       THEN Append(kinds, st.tag)
                       ELSE kinds
           /\ board' = IF ok /\ res.val.some
                       THEN [r \in DOMAIN board |-> [c \in DOMAIN board[r] |->
                               IF \E i \in DOMAIN res.reads :
                                      res.reads[i] = <<r, c>>
                               THEN "Empty" ELSE board[r][c]]]
                       ELSE board
           /\ lastOp' = Call("next", 0, 0, "none", ok,
                             IF ok /\ res.val.some THEN "some" ELSE "none")
           /\ panicked' = ~ok
    /\ UNCHANGED <<N, nsets, written, line, lineFrom>>

\* LineIterator::next: the match that samples the Line, then the state
\* transition.  A panic in either leaves the iterator as it was.
IterNext ==
    /\ ~panicked
    /\ iter.alive
    /\ LET st  == iter.state
           res == NextResult(board, st)
           ns  == StateNext(st)
           ok  == res.ok /\ ns # IllegalState
       IN  /\ iter' = IF ok THEN [iter EXCEPT !.state = ns] ELSE iter
           /\ result' = IF ok THEN res.val ELSE result
           /\ visits' = IF ok THEN Count(visits, st) ELSE visits
           /\ sampled' = IF ok /\ res.val.some
                         THEN Append(sampled, res.reads)
                         ELSE sampled
           /\ kinds' = IF ok /\ res.val.some
                       THEN Append(kinds, st.tag)
                       ELSE kinds
           /\ lastOp' = Call("next", 0, 0, "none", ok,
                             IF ok /\ res.val.some THEN "some" ELSE "none")
           /\ panicked' = ~ok
    /\ UNCHANGED <<N, board, nsets, written, line, lineFrom>>

\* ----------------------------------------------------------- specifications

\* The dimensions checked: the small substituted ones and the program's own.
Dims == (2..MaxDim) \cup {BOARD_SIZE}

InitWith(dims) ==
    /\ N \in dims
    /\ board = BoardEmpty
    /\ nsets = 0
    /\ written = [x \in {} |-> "Empty"]
    /\ line = NoLine
    /\ lineFrom = NoCall
    /\ iter = NoIter
    /\ result = None
    /\ visits = ZeroVisits
    /\ sampled = <<>>
    /\ kinds = <<>>
    /\ lastOp = NoCall
    /\ panicked = FALSE

Init == InitWith(Dims)

SetAny == \E at \in SetCells, val \in Piece : SetCall(at[1], at[2], val)

GetAny == \E at \in GetCells : GetCall(at[1], at[2])

GetRowAny == \E row \in StartCoords : GetRowCall(row)

GetColAny == \E col \in StartCoords : GetColCall(col)

GetDownDiagonalAny ==
    \E row \in StartCoords, col \in StartCoords : GetDownDiagonalCall(row, col)

GetUpDiagonalAny ==
    \E row \in StartCoords, col \in StartCoords : GetUpDiagonalCall(row, col)

\* The board and its cell access.
Next == SetAny \/ GetAny

Spec == Init /\ [][Next]_vars

\* The board and the line accessors.
SetFew == nsets < MaxLineSets /\ SetAny

NextLine ==
    SetFew \/ GetRowAny \/ GetColAny \/ GetDownDiagonalAny \/ GetUpDiagonalAny

SpecLine == Init /\ [][NextLine]_vars

\* The board and a LineIterator over it.
NextIter == SetFew \/ IterOn \/ IterNext

SpecIter == Init /\ [][NextIter]_vars

\* A LineIterator over the empty board, with every dimension from 1
\* substituted for BOARD_SIZE, and a caller that calls next again and again.
InitAnyDim == InitWith((1..MaxDim) \cup {BOARD_SIZE})

NextWalk == IterOn \/ IterNext

SpecAnyDim == InitAnyDim /\ [][NextWalk]_vars /\ WF_vars(IterNext)

\* Lines and everything that constructs one, on the empty board.
LineOfAny == \E s \in Texts : LineOfCall(s)

LineEmptyAny == \E size \in Sizes : LineEmptyCall(size)

NextText ==
    \/ LineOfAny \/ LineEmptyAny \/ LineToStringCall
    \/ GetRowAny \/ GetColAny \/ GetDownDiagonalAny \/ GetUpDiagonalAny
    \/ IterOn \/ IterNext

SpecText == Init /\ [][NextText]_vars

\* ------------------------------------------------------------------ claims

IterFinished == iter.alive /\ iter.state = Finished

Yielded == visits.rows + visits.cols + visits.d1 + visits.d2

\* C1: a traversal started at Row(0) visits exactly N Row states, N Col
\* states, 2N-1 UpDiag states and 2N-1 DownDiag states before it first
\* reaches Finished; the iterator yields exactly 6N-2 Lines, none of its
\* calls fails, and it returns None only after them.
C1_TraversalCounts ==
    /\ (lastOp.op = "next" => ~panicked)
    /\ iter.alive =>
        /\ Len(sampled) = Yielded
        /\ Yielded <= 6 * N - 2
        /\ (iter.state = Finished) <=> (Yielded = 6 * N - 2)
        /\ iter.state = Finished =>
              visits = [rows |-> N, cols |-> N,
                        d1 |-> 2 * N - 1, d2 |-> 2 * N - 1]
        /\ (lastOp.op = "next" /\ lastOp.ret = "none") => iter.state = Finished
        /\ (lastOp.op = "next" /\ lastOp.ret = "some") => result.some

C1_Witness ==
    /\ N = BOARD_SIZE
    /\ IterFinished
    /\ lastOp.op = "next" /\ lastOp.ret = "none"
    /\ Len(sampled) = 6 * BOARD_SIZE - 2

\* The maximal straight lines of the N x N grid, as sets of cells.
GridRows == {{<<r, c>> : c \in 0..(N - 1)} : r \in 0..(N - 1)}

GridCols == {{<<r, c>> : r \in 0..(N - 1)} : c \in 0..(N - 1)}

GridUpDiagonals ==
    {{x \in Cells : x[1] + x[2] = k} : k \in 0..(2 * N - 2)}

GridDownDiagonals ==
    {{x \in Cells : x[1] - x[2] = d} : d \in (1 - N)..(N - 1)}

GridLines == GridRows \cup GridCols \cup GridUpDiagonals \cup GridDownDiagonals

Range(f) == {f[i] : i \in DOMAIN f}

\* C2: no Line is sampled twice (the coordinate sequences of the yielded
\* Lines are pairwise distinct at every moment), and when the enumeration
\* has finished the 6N-2 sampled lines are exactly the rows, columns,
\* up-diagonals and down-diagonals of the grid.
C2_EveryLineOnce ==
    /\ \A i, j \in DOMAIN sampled : i # j => sampled[i] # sampled[j]
    /\ IterFinished =>
        /\ {Range(sampled[i]) : i \in DOMAIN sampled} = GridLines
        /\ Cardinality(GridLines) = 6 * N - 2
        /\ Len(sampled) = 6 * N - 2

C2_Witness ==
    /\ IterFinished
    /\ N = BOARD_SIZE
    /\ \E i, j \in DOMAIN sampled :
          /\ sampled[i] = <<<<MAX, 0>>>>
          /\ Len(sampled[j]) = N /\ sampled[j][1] = <<MAX, 0>>
          /\ sampled[j][N] = <<0, MAX>>

\* C3: a set on a valid cell succeeds; afterwards get of that cell returns
\* the piece set, and get of every other valid cell returns what it returned
\* before the set.
C3_SetThenGet ==
    [][(lastOp'.op = "set" /\ lastOp'.row < N /\ lastOp'.col < N) =>
         /\ lastOp'.ok /\ ~panicked'
         /\ BoardGet(board', lastOp'.row, lastOp'.col) = Ok(lastOp'.val)
         /\ \A x \in Cells :
               x # <<lastOp'.row, lastOp'.col>> =>
                  BoardGet(board', x[1], x[2]) = BoardGet(board, x[1], x[2])
      ]_vars

C3_Witness ==
    /\ lastOp.op = "set" /\ lastOp.ok
    /\ lastOp.val # "Empty"
    /\ lastOp.row # lastOp.col
    /\ \E x \in DOMAIN written :
          x # <<lastOp.row, lastOp.col>> /\ board[x[1]][x[2]] # "Empty"

\* C4: get and set with row >= N or col >= N fail: they panic, returning no
\* Piece and reporting no success, whatever the other coordinate is.
C4_OutOfBoundsFails ==
    (lastOp.op \in {"get", "set"} /\ (lastOp.row >= N \/ lastOp.col >= N)) =>
        (~lastOp.ok /\ lastOp.ret = "panic" /\ panicked)

C4_Witness ==
    /\ lastOp.op = "set"
    /\ lastOp.row < N /\ lastOp.col = 2 * N - 1
    /\ panicked
    /\ nsets >= 2

\* C5 as claimed: whatever dimension (from 1) is substituted for BOARD_SIZE,
\* no call of next fails on the way to Finished.
C5_NextNeverFailsAnyDim == lastOp.op = "next" => ~panicked

\* C5, amended: for every dimension from 2 on, no call of next fails, and an
\* iterator whose next is called again and again reaches Finished.
C5_TerminatesFromDim2 ==
    /\ []((N >= 2 /\ lastOp.op = "next") => ~panicked)
    /\ (iter.alive /\ N >= 2) ~> IterFinished

C5_Witness ==
    /\ N = 2
    /\ IterFinished
    /\ visits.d2 = 3
    /\ ~result.some

AccessorOps == {"get_row", "get_col", "get_down_diagonal", "get_up_diagonal"}

\* C6: for every start (row, col) on the board with row = 0 or col = 0,
\* get_down_diagonal returns a Line of size exactly N - row - col.
C6_DownDiagonalSize ==
    (/\ lastOp.op = "get_down_diagonal"
     /\ lastOp.row < N /\ lastOp.col < N
     /\ (lastOp.row = 0 \/ lastOp.col = 0)) =>
        /\ lastOp.ok /\ line.held
        /\ line.val.size = N - lastOp.row - lastOp.col

C6_Witness ==
    /\ N = BOARD_SIZE
    /\ lastOp.op = "get_down_diagonal" /\ lastOp.ok
    /\ lastOp.row = N - 1 /\ lastOp.col = 0
    /\ line.val.size = 1

\* C7: for every start (row, col) on the board with row = N-1 or col = 0,
\* get_up_diagonal returns a Line of size exactly row - col + 1.
C7_UpDiagonalSize ==
    (/\ lastOp.op = "get_up_diagonal"
     /\ lastOp.row < N /\ lastOp.col < N
     /\ (lastOp.row = N - 1 \/ lastOp.col = 0)) =>
        /\ lastOp.ok /\ line.held
        /\ line.val.size = lastOp.row - lastOp.col + 1

C7_Witness ==
    /\ N = BOARD_SIZE
    /\ lastOp.op = "get_up_diagonal" /\ lastOp.ok
    /\ lastOp.row = N - 1 /\ lastOp.col = N - 1
    /\ line.val.size = 1

\* The strides of each accessor, as the spec's sampler section gives them.
RowStride(op) ==
    CASE op = "get_row" -> 0
      [] op = "get_col" -> 1
      [] op = "get_down_diagonal" -> 1
      [] op = "get_up_diagonal" -> -1

ColStride(op) == IF op = "get_col" THEN 0 ELSE 1

\* C8: the Line an accessor returns holds, at each index i below its size,
\* the board's piece at (row + i*rstride, col + i*cstride); rows and columns
\* of the board are returned for every valid index and have size N.
C8_LineHoldsCells ==
    /\ (lastOp.op \in AccessorOps /\ lastOp.ok) =>
          /\ line.held
          /\ \A i \in 0..(line.val.size - 1) :
                Ok(line.val.cells[i]) =
                   BoardGet(board, lastOp.row + i * RowStride(lastOp.op),
                                   lastOp.col + i * ColStride(lastOp.op))
    /\ (lastOp.op \in {"get_row", "get_col"}
            /\ lastOp.row < N /\ lastOp.col < N) =>
          (lastOp.ok /\ line.val.size = N)

C8_Witness ==
    /\ lastOp.op = "get_up_diagonal" /\ lastOp.ok
    /\ \E i \in 1..(line.val.size - 1) : line.val.cells[i] # "Empty"

\* C9: a Line is a snapshot: a set on the board leaves the size and every
\* cell of a Line constructed before it unchanged.
C9_LineIsSnapshot ==
    [][(line.held /\ lastOp'.op = "set") => line' = line]_vars

\* the Line held no longer equals what its accessor would return now
C9_Witness ==
    /\ line.held
    /\ lastOp.op = "set" /\ lastOp.ok
    /\ Resample(lineFrom, board).val # line.val

\* C10: starting from the empty board, after any sequence of sets every cell
\* holds one Piece: get returns the piece of the most recent set on that
\* cell, and Empty for a cell never set.
C10_CellsHoldLastSet ==
    /\ DOMAIN board = 0..(N - 1)
    /\ \A x \in Cells :
          /\ board[x[1]][x[2]] \in Piece
          /\ BoardGet(board, x[1], x[2]) =
                Ok(IF x \in DOMAIN written THEN written[x] ELSE "Empty")

\* the three placements of test_set, and nothing else, on the real board
C10_Witness ==
    /\ N = BOARD_SIZE
    /\ DOMAIN written = Placements
    /\ written[<<CENTER, CENTER>>] = "Black"
    /\ written[<<CENTER + 1, CENTER + 1>>] = "White"
    /\ written[<<CENTER, CENTER - 1>>] = "White"
    /\ {x \in Cells : board[x[1]][x[2]] # "Empty"} = Placements

\* C11: once the enumerator is Finished, a further call of next returns None,
\* does not fail, yields nothing and leaves the state Finished.
C11_FinishedIsFinal ==
    [][(IterFinished /\ lastOp'.op = "next") =>
         /\ iter' = iter
         /\ result' = None
         /\ lastOp'.ok /\ lastOp'.ret = "none"
         /\ ~panicked'
         /\ sampled' = sampled /\ visits' = visits
      ]_vars

C11_Witness ==
    /\ IterFinished
    /\ nsets = 1
    /\ lastOp.op = "next" /\ lastOp.ret = "none"
    /\ result = None

ValidText(s) == \A i \in DOMAIN s : s[i] \in {"-", "O", "X"}

\* C12: for every string s of 1 to N characters over '-', 'O', 'X',
\* Line::of(s) succeeds with size = length of s, and its rendering is
\* exactly "[" followed by s followed by "]".
C12_OfThenToString ==
    /\ (lastOp.op = "of" /\ ValidText(lastOp.val)
          /\ Len(lastOp.val) >= 1 /\ Len(lastOp.val) <= N) =>
         /\ lastOp.ok
         /\ line.held /\ LineSize(line.val) = Len(lastOp.val)
         /\ lineFrom.op = "of" /\ lineFrom.text = lastOp.val
    /\ (lastOp.op = "to_string" /\ lineFrom.op = "of") =>
         lastOp.ret = <<"[">> \o lineFrom.text \o <<"]">>

C12_Witness ==
    /\ N = BOARD_SIZE
    /\ lastOp.op = "to_string"
    /\ lineFrom.op = "of"
    /\ Len(lineFrom.text) = 14
    /\ lastOp.ret[5] = "X" /\ lastOp.ret[7] = "O" /\ lastOp.ret[16] = "]"

\* The coordinates read for the Line yielded last.
LastReads == sampled[Len(sampled)]

\* C13: a call of next changes no cell of the board, and the Line it yields
\* is determined by the board and the state the iterator was in: it holds,
\* in order, the board's pieces at the cells that state stands for.
C13_NextReadsOnly ==
    [][lastOp'.op = "next" =>
         /\ board' = board
         /\ (lastOp'.ret = "some") =>
              /\ result'.some
              /\ sampled' = Append(sampled, LastReads')
              /\ LineSize(result'.line) = Len(LastReads')
              /\ \A i \in 1..Len(LastReads') :
                    LineGet(result'.line, i - 1) =
                        board[LastReads'[i][1]][LastReads'[i][2]]
              /\ kinds'[Len(kinds')] = iter.state.tag
      ]_vars

C13_Witness ==
    /\ iter.alive
    /\ lastOp.op = "next" /\ lastOp.ret = "some"
    /\ result.some
    /\ \E i \in 0..(LineSize(result.line) - 1) :
          LineGet(result.line, i) # "Empty"

\* C14: get_down_diagonal(row, col) with row > 0 and col > 0 fails, and so
\* does get_up_diagonal(row, col) with row # N-1 and col # 0; the call
\* returns no Line, the Line held before it stays as it was.
C14_OffEdgeStartFails ==
    [][((lastOp'.op = "get_down_diagonal"
            /\ lastOp'.row > 0 /\ lastOp'.col > 0)
        \/ (lastOp'.op = "get_up_diagonal"
            /\ lastOp'.row # N - 1 /\ lastOp'.col # 0)) =>
         /\ ~lastOp'.ok /\ lastOp'.ret = "panic"
         /\ panicked'
         /\ line' = line /\ lineFrom' = lineFrom
      ]_vars

C14_Witness ==
    /\ N = BOARD_SIZE
    /\ lastOp.op = "get_up_diagonal"
    /\ lastOp.row = CENTER /\ lastOp.col = 1
    /\ panicked

\* The state the traversal is in after k Lines, by the order Row(0..MAX),
\* Col(0..MAX), UpDiag(0..MAX, 0), UpDiag(MAX, 1..MAX), DownDiag(0, MAX..0),
\* DownDiag(1..MAX, 0), Finished.
StateAt(k) ==
    IF k < N THEN Row(k)
    ELSE IF k < 2 * N THEN Col(k - N)
    ELSE IF k < 3 * N THEN UpDiag(k - 2 * N, 0)
    ELSE IF k < 4 * N - 1 THEN UpDiag(MAX, k - 3 * N + 1)
    ELSE IF k < 5 * N - 1 THEN DownDiag(0, MAX - (k - (4 * N - 1)))
    ELSE IF k < 6 * N - 2 THEN DownDiag(k - (5 * N - 1) + 1, 0)
    ELSE Finished

\* The rows of the transition table, each with its side condition.
TableNext(s) ==
    CASE s.tag = "Row" /\ s.i < MAX -> Row(s.i + 1)
      [] s.tag = "Row" /\ s.i = MAX -> Col(0)
      [] s.tag = "Col" /\ s.i < MAX -> Col(s.i + 1)
      [] s.tag = "Col" /\ s.i = MAX -> UpDiag(0, 0)
      [] s.tag = "UpDiag" /\ s.c = 0 /\ s.r < MAX -> UpDiag(s.r + 1, 0)
      [] s.tag = "UpDiag" /\ s.c = 0 /\ s.r = MAX -> UpDiag(MAX, 1)
      [] s.tag = "UpDiag" /\ s.r = MAX /\ 0 < s.c /\ s.c < MAX ->
            UpDiag(MAX, s.c + 1)
      [] s.tag = "UpDiag" /\ s.r = MAX /\ s.c = MAX ->
            DownDiag(0, MAX)
      [] s.tag = "DownDiag" /\ s.r = 0 /\ s.c > 0 -> DownDiag(0, s.c - 1)
      [] s.tag = "DownDiag" /\ s.r = 0 /\ s.c = 0 -> DownDiag(1, 0)
      [] s.tag = "DownDiag" /\ s.c = 0 /\ 0 < s.r /\ s.r < MAX ->
            DownDiag(s.r + 1, 0)
      [] s.tag = "DownDiag" /\ s.c = 0 /\ s.r = MAX -> Finished
      [] s.tag = "Finished" -> Finished

\* C16: the iterator visits its states in exactly the order Row(0)..Row(MAX),
\* Col(0)..Col(MAX), UpDiag(0,0)..UpDiag(MAX,0), UpDiag(MAX,1)..UpDiag(MAX,MAX),
\* DownDiag(0,MAX)..DownDiag(0,0), DownDiag(1,0)..DownDiag(MAX,0), Finished,
\* and every transition a call of next makes is the one the table gives.
C16_VisitingOrder ==
    /\ [](iter.alive => iter.state = StateAt(Yielded))
    /\ [][lastOp'.op = "next" =>
            /\ lastOp'.ok
            /\ iter'.state = TableNext(iter.state)]_vars

C16_Witness ==
    /\ N = BOARD_SIZE
    /\ iter.alive
    /\ iter.state = DownDiag(1, 0)
    /\ Yielded = 5 * BOARD_SIZE - 1
    /\ lastOp.op = "next"

\* The coordinates read for the Line held, in the order they were read.
HeldReads == Resample(lineFrom, board).reads

\* C17: for every start on the board that satisfies the accessor's
\* precondition (down: row = 0 or col = 0; up: row = N-1 or col = 0), the
\* call does not fail and every coordinate it reads,
\* (row + i*rstride, col + i*cstride) for i below the length, is a cell of
\* the board.
C17_ReadsStayOnBoard ==
    (/\ lastOp.op \in {"get_down_diagonal", "get_up_diagonal"}
     /\ lastOp.row < N /\ lastOp.col < N
     /\ \/ lastOp.col = 0
        \/ lastOp.op = "get_down_diagonal" /\ lastOp.row = 0
        \/ lastOp.op = "get_up_diagonal" /\ lastOp.row = N - 1) =>
        /\ lastOp.ok /\ ~panicked
        /\ lineFrom = [op |-> lastOp.op, row |-> lastOp.row, col |-> lastOp.col]
        /\ Len(HeldReads) = LineSize(line.val)
        /\ \A i \in 1..Len(HeldReads) :
              /\ HeldReads[i] \in Cells
              /\ HeldReads[i] =
                    <<lastOp.row + (i - 1) * RowStride(lastOp.op),
                      lastOp.col + (i - 1) * ColStride(lastOp.op)>>

C17_Witness ==
    /\ N = BOARD_SIZE
    /\ lastOp.op = "get_up_diagonal" /\ lastOp.ok
    /\ lastOp.row = N - 1 /\ lastOp.col = 1
    /\ Len(HeldReads) = N - 1
    /\ HeldReads[N - 1] = <<1, N - 1>>

\* C18: every Line constructed has 1 <= size <= N, whether an accessor,
\* Line::of, Line::empty or the iterator made it; rows and columns have size
\* exactly N; constructing a Line of size 0 or of a size above N fails and
\* produces no Line.
C18_LineSizeInRange ==
    /\ line.held => (1 <= LineSize(line.val) /\ LineSize(line.val) <= N)
    /\ result.some =>
          (1 <= LineSize(result.line) /\ LineSize(result.line) <= N)
    /\ (lastOp.op \in {"get_row", "get_col"} /\ lastOp.ok) =>
          LineSize(line.val) = N
    /\ (kinds # <<>> /\ kinds[Len(kinds)] \in {"Row", "Col"}
            /\ lastOp.op = "next" /\ lastOp.ret = "some") =>
          LineSize(result.line) = N
    /\ (lastOp.op = "empty" /\ (lastOp.row = 0 \/ lastOp.row > N)) =>
          (~lastOp.ok /\ panicked)
    /\ (lastOp.op = "of" /\ (Len(lastOp.val) = 0 \/ Len(lastOp.val) > N)) =>
          (~lastOp.ok /\ panicked)
    /\ (lastOp.op \in {"empty", "of"} /\ lastOp.ok) =>
          (line.held /\ lineFrom.op = lastOp.op)

C18_Witness ==
    /\ N = BOARD_SIZE
    /\ lastOp.op = "of"
    /\ Len(lastOp.val) = N + 1
    /\ ValidText(lastOp.val)
    /\ panicked

\* The states the accessors' assertions accept.
LegalState(s) ==
    CASE s.tag = "Row"      -> s.i >= 0 /\ s.i <= MAX
      [] s.tag = "Col"      -> s.i >= 0 /\ s.i <= MAX
      [] s.tag = "UpDiag"   -> /\ s.r = MAX \/ s.c = 0
                               /\ s.r >= 0 /\ s.r <= MAX
                               /\ s.c >= 0 /\ s.c <= MAX
      [] s.tag = "DownDiag" -> /\ s.r = 0 \/ s.c = 0
                               /\ s.r >= 0 /\ s.r <= MAX
                               /\ s.c >= 0 /\ s.c <= MAX
      [] s.tag = "Finished" -> TRUE
      [] OTHER              -> FALSE

\* C19: every state the iterator reaches from Row(0) is legal: Row(i) and
\* Col(i) have i <= MAX, UpDiag(r, c) has r = MAX or c = 0, DownDiag(r, c)
\* has r = 0 or c = 0, both with r, c <= MAX; State::next never takes its
\* catch-all arm from it, the accessor called for it does not fail, and so
\* no call of next fails.
C19_StatesLegal ==
    /\ iter.alive =>
          /\ LegalState(iter.state)
          /\ StateNext(iter.state) # IllegalState
          /\ NextResult(board, iter.state).ok
    /\ lastOp.op = "next" => (lastOp.ok /\ ~panicked)

C19_Witness ==
    /\ N = BOARD_SIZE
    /\ iter.alive
    /\ iter.state = UpDiag(MAX, MAX)
    /\ lastOp.op = "next" /\ lastOp.ok

\* The indices of the Lines yielded by states of kind k.
OfKind(k) == {i \in 1..Len(kinds) : kinds[i] = k}

\* The sum of the sizes of the Lines with index in S.
RECURSIVE SumOfSizes(_)
SumOfSizes(S) ==
    IF S = {} THEN 0
    ELSE LET i == CHOOSE j \in S : TRUE
         IN  Len(sampled[i]) + SumOfSizes(S \ {i})

\* C20: when the iterator has finished, every cell of the board has been
\* read for exactly one Line of each kind, Row, Col, UpDiag and DownDiag (and
\* no Line reads a cell twice), so four times in all; the sizes of the 2N-1
\* up diagonals sum to N*N, so do those of the down diagonals, and the sizes
\* of all 6N-2 Lines sum to 4*N*N.
C20_EachCellFourTimes ==
    IterFinished =>
        LET cellsOf == [i \in 1..Len(sampled) |-> Range(sampled[i])]
        IN  /\ Len(kinds) = Len(sampled)
            /\ \A i \in 1..Len(sampled) :
                  Cardinality(cellsOf[i]) = Len(sampled[i])
            /\ \A k \in {"Row", "Col", "UpDiag", "DownDiag"} :
                  LET idx == OfKind(k)
                  IN  \A x \in Cells :
                         Cardinality({i \in idx : x \in cellsOf[i]}) = 1
            /\ Cardinality(OfKind("UpDiag")) = 2 * N - 1
            /\ Cardinality(OfKind("DownDiag")) = 2 * N - 1
            /\ SumOfSizes(OfKind("UpDiag")) = N * N
            /\ SumOfSizes(OfKind("DownDiag")) = N * N
            /\ SumOfSizes(1..Len(sampled)) = 4 * N * N

C20_Witness ==
    /\ N = BOARD_SIZE
    /\ IterFinished
    /\ Len(kinds) = 6 * BOARD_SIZE - 2
    /\ SumOfSizes(1..Len(sampled)) = 4 * BOARD_SIZE * BOARD_SIZE
    /\ nsets = 1

====
